---------------------------- MODULE Spec2Model ----------------------------
(***************************************************************************)
(* Model of src/app.py: a Streamlit script that loads a retail CSV file,   *)
(* derives a profit column, shows "top insight" aggregates, filters the    *)
(* rows by a description search and a country, and shows KPIs, a CSV       *)
(* download and charts of the filtered rows.  The script runs top to       *)
(* bottom once per user interaction; one action models one section of it.  *)
(*                                                                         *)
(* Data representation.  A cell of the data frame is NaN (the empty tuple) *)
(* or <<v>>.  A description value is a sequence of characters, a timestamp *)
(* a pair <<month, day>>, a unit price an integer number of cents.  The    *)
(* profit column is kept in tenths of a cent (price in cents times the     *)
(* margin 0.2 = 2 tenths), so that the arithmetic is exact.                *)
(* A Series is a sequence of [key, value] entries.                         *)
(***************************************************************************)
EXTENDS Integers, Sequences, FiniteSets, TLC

VARIABLES
    file,                    \* the CSV file on disk (never written by the script)
    search_text,             \* state of the "Search Description" widget
    selected_country,        \* state of the "Select Country" widget
    pc,                      \* the section of the script the run is about to execute
    df,                      \* line 17-29
    description_dtype,       \* dtype pandas inferred for df['description']
    top_selling_products,    \* line 45
    top_profitable_products, \* line 60
    top_countries,           \* line 75
    num_loss_customers,      \* line 87
    filtered_df,             \* line 97-101
    total_sales,             \* line 105
    total_profit,            \* line 106
    date_min,                \* line 107
    date_max,                \* line 108
    csv,                     \* line 116, the data handed to the download button
    preview,                 \* line 121
    sales_over_time,         \* line 125
    monthly_sales,           \* line 130
    clv,                     \* line 135-136
    order_dist,              \* line 141
    rendered,                \* the elements the run has put on the page, in order
    first_df                 \* history: the data frame of the session's first load

inputs   == <<file, search_text, selected_country>>
insights == <<top_selling_products, top_profitable_products, top_countries,
              num_loss_customers>>
kpis     == <<total_sales, total_profit, date_min, date_max>>
charts   == <<sales_over_time, monthly_sales, clv, order_dist>>
vars     == <<file, search_text, selected_country, pc, df, description_dtype,
              top_selling_products, top_profitable_products, top_countries,
              num_loss_customers, filtered_df, total_sales, total_profit,
              date_min, date_max, csv, preview, sales_over_time, monthly_sales,
              clv, order_dist, rendered, first_df>>

---------------------------------------------------------------------------
(* Bounds of the model *)

\* Longest file built freely from the catalogue rows.
MaxRows == 3

\* Longest of the bulk files (one customer per row).
MaxBulk == 12

---------------------------------------------------------------------------
(* Program constants *)

\* head(5), lines 45 and 60
TopProducts == 5

\* head(3), line 75
TopCountriesN == 3

\* head(10), line 136
TopCustomersN == 10

\* head(20), line 121
PreviewRows == 20

\* the margin 0.2 of line 29, in tenths
Margin == 2

\* names=[...] of line 20-21, and the profit column of line 29
Columns == <<"invoice", "stockcode", "description", "quantity", "invoicedate",
             "unitprice", "customerid", "country", "profit">>

---------------------------------------------------------------------------
(* Cells, rows and sums *)

NaN == <<>>

V(cell) == cell[1]

Range(s) == {s[i] : i \in 1..Len(s)}

RECURSIVE SumSeq(_)
SumSeq(s) == IF s = <<>> THEN 0 ELSE Head(s) + SumSeq(Tail(s))

\* frame[frame[col] ...]: the rows at the positions where mask is TRUE, in order
RECURSIVE BooleanIndex(_, _)
BooleanIndex(frame, mask) ==
    IF frame = <<>> THEN <<>>
    ELSE (IF Head(mask) THEN <<Head(frame)>> ELSE <<>>)
         \o BooleanIndex(Tail(frame), Tail(mask))

\* quantity * unitprice of one row, in cents (lines 105, 125, 130, 135)
Sales(r) == V(r.quantity) * V(r.unitprice)

\* the named column of a frame as a sequence of integers
Column(frame, col) ==
    [i \in 1..Len(frame) |->
        IF col = "sales" THEN Sales(frame[i]) ELSE V(frame[i][col])]

---------------------------------------------------------------------------
(* The inputs the model draws from *)

Row(inv, stock, desc, qty, date, price, cust, ctry) ==
    [invoice |-> <<inv>>, stockcode |-> <<stock>>, description |-> desc,
     quantity |-> qty, invoicedate |-> date, unitprice |-> price,
     customerid |-> cust, country |-> ctry]

\* Rows a file is built from.  Rows 1 to 3 are the worked example
\* (10 x 2.00 UK, -5 x 3.00 UK, 4 x 1.50 FR); row 4 is the full return of
\* row 1 and has no description; row 5 has neither customer id nor country;
\* row 6 has no quantity, so dropna removes it.
Catalog ==
    << Row(1, 11, << <<"a", "b">> >>, <<10>>,  << <<1, 5>> >>,  <<200>>, <<1>>, <<"UK">>),
       Row(2, 12, << <<"A">> >>,      <<-5>>,  << <<1, 20>> >>, <<300>>, <<2>>, <<"UK">>),
       Row(3, 11, << <<"a", "b">> >>, <<4>>,   << <<3, 2>> >>,  <<150>>, <<2>>, <<"FR">>),
       Row(4, 13, NaN,                <<-10>>, << <<1, 5>> >>,  <<200>>, <<1>>, <<"UK">>),
       Row(5, 14, << <<"b">> >>,      <<-4>>,  << <<3, 2>> >>,  <<150>>, NaN,   NaN),
       Row(6, 11, << <<"a", "b">> >>, NaN,     << <<1, 20>> >>, <<200>>, <<1>>, <<"FR">>) >>

\* The third and the seventh description get the same quantity in a file of
\* ten rows or more; "bb" comes first in the rows, "A" first in key order.
BulkDescriptions ==
    << <<"a">>, <<"b">>, <<"b", "b">>, <<"a", "b">>, <<"b", "a">>, <<"a", "a">>, <<"A">> >>

BulkQuantity(i) == IF i = 2 THEN 1 ELSE IF i = 3 THEN -3 ELSE i

BulkCountry(i) ==
    IF i <= 5 THEN <<"UK">>
    ELSE IF i <= 8 THEN <<"FR">>
    ELSE IF i <= 10 THEN <<"DE">>
    ELSE IF i = 12 THEN NaN
    ELSE <<"ES">>

\* Row i of a bulk file: customer i, one of seven descriptions, one of four
\* countries, so that every "Top N" view has more than N groups.
BulkRow(i) ==
    Row(100 + i, 20 + (i % 7), <<BulkDescriptions[((i - 1) % 7) + 1]>>,
        <<BulkQuantity(i)>>, << <<((i - 1) % 3) + 1, i>> >>, <<100>>, <<i>>,
        BulkCountry(i))

FileRows ==
    UNION { {[i \in 1..n |-> Catalog[ix[i]]] : ix \in [1..n -> 1..Len(Catalog)]}
            : n \in 0..MaxRows }
    \cup {[i \in 1..n |-> BulkRow(i)] : n \in (MaxBulk - 1)..MaxBulk}

\* The file at file_path: absent, not parseable as a table, or a table.
Files ==
    { [exists |-> FALSE, wellformed |-> FALSE, rows |-> <<>>],
      [exists |-> TRUE,  wellformed |-> FALSE, rows |-> <<>>] }
    \cup { [exists |-> TRUE, wellformed |-> TRUE, rows |-> rows] : rows \in FileRows }

\* What the user may type into the search box.
SearchTexts ==
    { <<>>, <<"a">>, <<"B">>, <<".">>, <<"(">>, <<"b", "a">> }

---------------------------------------------------------------------------
(* pandas operations, as the script uses them *)

\* pd.read_csv(...): the table's rows; an empty field is NaN
ReadCsv(f) == f.rows

\* The dtype read_csv infers for the description column: a column with no
\* value at all is float64, any other column of text is object.
DescriptionDtype(rows) ==
    IF rows = <<>> \/ \E i \in 1..Len(rows) : rows[i].description # NaN
    THEN "object" ELSE "float64"

\* df.dropna(subset=[...])
DropNa(frame, subset) ==
    BooleanIndex(frame, [i \in 1..Len(frame) |-> \A c \in subset : frame[i][c] # NaN])

\* Mutant of AssignProfit: a return counts as a sale
AssignProfitUnsigned(frame) ==
    [i \in 1..Len(frame) |->
        frame[i] @@ ("profit" :> <<(IF Sales(frame[i]) < 0 THEN -Sales(frame[i])
                                    ELSE Sales(frame[i])) * Margin>>)]

\* df['profit'] = df['quantity'] * df['unitprice'] * 0.2
AssignProfit(frame) ==
    [i \in 1..Len(frame) |-> frame[i] @@ ("profit" :> <<Sales(frame[i]) * Margin>>)]

\* Mutant of GroupKeys: dropna=False, NaN is a key
GroupKeysKeepNaN(frame, col) == {frame[i][col] : i \in 1..Len(frame)}

\* The keys of groupby(col) and of value_counts(): dropna=True is the
\* default of both, so NaN is no key
GroupKeys(frame, col) == {frame[i][col] : i \in 1..Len(frame)} \ {NaN}

\* The rows of one group
Group(frame, col, k) ==
    BooleanIndex(frame, [i \in 1..Len(frame) |-> frame[i][col] = k])

\* groupby(col)[valcol].sum(), and groupby(col).apply(lambda x: (x.quantity * x.unitprice).sum())
\* with valcol = "sales"
GroupBySum(frame, col, valcol) ==
    [k \in GroupKeys(frame, col) |-> SumSeq(Column(Group(frame, col, k), valcol))]

\* frame[col].value_counts(), before its sort
GroupSizes(frame, col) ==
    [k \in GroupKeys(frame, col) |-> Len(Group(frame, col, k))]

\* series.sort_values(ascending=False): kind defaults to quicksort, which is
\* not stable, so the order of entries of equal value is not determined
\* (where the sort happens to keep the order of its input, that order is the
\* key order of groupby, not the order of the rows).
\* The set of the orders the sort may return.
RECURSIVE SortValuesDesc(_)
SortValuesDesc(series) ==
    IF DOMAIN series = {} THEN {<<>>}
    ELSE LET top == {k \in DOMAIN series :
                        \A j \in DOMAIN series : series[j] <= series[k]}
         IN  UNION { { <<[key |-> k, value |-> series[k]]>> \o rest :
                         rest \in SortValuesDesc([j \in DOMAIN series \ {k} |-> series[j]]) }
                     : k \in top }

\* Mutant of HeadN: one entry too many
HeadNOffByOne(s, n) == SubSeq(s, 1, IF Len(s) < n + 1 THEN Len(s) ELSE n + 1)

\* .head(n)
HeadN(s, n) == SubSeq(s, 1, IF Len(s) < n THEN Len(s) ELSE n)

\* Chronological order of timestamps <<month, day>>
Before(t1, t2) == t1[1] < t2[1] \/ (t1[1] = t2[1] /\ t1[2] < t2[2])

\* A series grouped by timestamp comes sorted by its key (groupby sort=True)
RECURSIVE SortByTime(_)
SortByTime(series) ==
    IF DOMAIN series = {} THEN <<>>
    ELSE LET k == CHOOSE k \in DOMAIN series :
                      \A j \in DOMAIN series : j = k \/ Before(V(k), V(j))
         IN  <<[key |-> k, value |-> series[k]]>>
             \o SortByTime([j \in DOMAIN series \ {k} |-> series[j]])

\* filtered_df['invoicedate'].min() and .max(): NaT (NaN) on an empty column
DateMin(frame) ==
    IF frame = <<>> THEN NaN
    ELSE <<CHOOSE t \in Range(Column(frame, "invoicedate")) :
               \A u \in Range(Column(frame, "invoicedate")) : t = u \/ Before(t, u)>>

DateMax(frame) ==
    IF frame = <<>> THEN NaN
    ELSE <<CHOOSE t \in Range(Column(frame, "invoicedate")) :
               \A u \in Range(Column(frame, "invoicedate")) : t = u \/ Before(u, t)>>

\* re.IGNORECASE (case=False) on the letters of the model
Fold(ch) == IF ch = "A" THEN "a" ELSE IF ch = "B" THEN "b" ELSE ch

\* re.compile(pat): an opening parenthesis that is never closed is an error
\* (the model's patterns hold no closing one)
RegexCompiles(pat) == \A j \in 1..Len(pat) : pat[j] # "("

\* The pattern matches text from position k + 1: "." matches any character
RegexMatchAt(text, pat, k) ==
    \A j \in 1..Len(pat) : pat[j] = "." \/ Fold(pat[j]) = Fold(text[k + j])

\* re.search(pat, text)
RegexSearch(text, pat) ==
    \E k \in 0..(Len(text) - Len(pat)) : RegexMatchAt(text, pat, k)

\* frame['description'].str.contains(pat, case=False, na=False): regex=True
\* is the default, so pat is a regular expression; NaN gives False
StrContains(frame, pat) ==
    [i \in 1..Len(frame) |->
        IF frame[i].description = NaN THEN FALSE
        ELSE RegexSearch(V(frame[i].description), pat)]

\* The .str accessor exists on a column of text only, and the pattern must compile
StrContainsRaises(dtype, pat) == dtype # "object" \/ ~RegexCompiles(pat)

\* Mutant of TextStep: the search box is ignored
TextStepOff(frame, text) == frame

\* Lines 98-99
TextStep(frame, text) ==
    IF text # <<>> THEN BooleanIndex(frame, StrContains(frame, text)) ELSE frame

\* Mutant of CountryStep: the country is selected from df, which loses the
\* text step's result
CountryStepOnDf(frame, ctry) ==
    IF ctry # "All"
    THEN BooleanIndex(df, [i \in 1..Len(df) |-> df[i].country = <<ctry>>])
    ELSE frame

\* Lines 100-101
CountryStep(frame, ctry) ==
    IF ctry # "All"
    THEN BooleanIndex(frame, [i \in 1..Len(frame) |-> frame[i].country = <<ctry>>])
    ELSE frame

\* ["All"] + sorted(df['country'].dropna().unique()), as a set
CountryOptions(frame) ==
    {"All"} \cup {V(c) : c \in {frame[i].country : i \in 1..Len(frame)} \ {NaN}}

\* resample('M', on='invoicedate').apply(...): one bin per calendar month from
\* the first to the last month of the frame, each with the sales of its rows
MonthlySales(frame) ==
    IF frame = <<>> THEN <<>>
    ELSE LET lo == V(DateMin(frame))[1]
             hi == V(DateMax(frame))[1]
         IN  [n \in 1..(hi - lo + 1) |->
                [key   |-> lo + n - 1,
                 value |-> SumSeq(Column(
                     BooleanIndex(frame, [i \in 1..Len(frame) |->
                         V(frame[i].invoicedate)[1] = lo + n - 1]), "sales"))]]

\* Mutant of ToCsv: the download holds all loaded rows
ToCsvOfDf(frame) ==
    <<Columns>> \o
    [i \in 1..Len(df) |-> [c \in 1..Len(Columns) |-> df[i][Columns[c]]]]

\* filtered_df.to_csv(index=False): the header line, then one line per row
\* with the row's cells in column order
ToCsv(frame) ==
    <<Columns>> \o
    [i \in 1..Len(frame) |-> [c \in 1..Len(Columns) |-> frame[i][Columns[c]]]]

---------------------------------------------------------------------------
(* The page *)

\* Mutant of Handler: the exception is swallowed without a message
HandlerSilent(before) == before

\* What the except clause of lines 148-149 leaves on the page after the
\* elements the failing section had already rendered
Handler(before) == before \o <<"error_failed">>

\* An exception inside the try block (lines 16-146): control leaves the
\* block, the handler renders its message, the script goes on at line 153
Raise(before) ==
    /\ rendered' = rendered \o Handler(before)
    /\ pc' = "footer"

Render(elements, next) ==
    /\ rendered' = rendered \o elements
    /\ pc' = next

---------------------------------------------------------------------------
(* The script *)

\* The namespace and the page at the start of a run of the script
FreshRun ==
    /\ df = <<>>
    /\ description_dtype = "object"
    /\ top_selling_products = <<>>
    /\ top_profitable_products = <<>>
    /\ top_countries = <<>>
    /\ num_loss_customers = 0
    /\ filtered_df = <<>>
    /\ total_sales = 0
    /\ total_profit = 0
    /\ date_min = NaN
    /\ date_max = NaN
    /\ csv = <<>>
    /\ preview = <<>>
    /\ sales_over_time = <<>>
    /\ monthly_sales = <<>>
    /\ clv = <<>>
    /\ order_dist = <<>>
    /\ rendered = <<>>

\* A new session: the widgets hold their defaults ("" and the first option)
Init ==
    /\ file \in Files
    /\ search_text = <<>>
    /\ selected_country = "All"
    /\ pc = "start"
    /\ first_df = NaN
    /\ FreshRun

\* Lines 15, 150-151: the file does not exist
FileNotFound ==
    /\ pc = "start"
    /\ ~file.exists
    /\ Render(<<"error_not_found">>, "footer")
    /\ UNCHANGED <<inputs, df, description_dtype, insights, filtered_df, kpis, csv,
                   preview, charts, first_df>>

\* Lines 17-31: read_csv, to_datetime, dropna, the profit column
Load ==
    /\ pc = "start"
    /\ file.exists
    /\ file.wellformed
    /\ df' = AssignProfit(DropNa(ReadCsv(file), {"invoicedate", "quantity", "unitprice"}))
    /\ description_dtype' = DescriptionDtype(ReadCsv(file))
    /\ first_df' = IF first_df = NaN THEN <<df'>> ELSE first_df
    /\ Render(<<"success">>, "overview")
    /\ UNCHANGED <<inputs, insights, filtered_df, kpis, csv, preview, charts>>

\* Lines 17-24, 148-149: read_csv raises on a file that is no table
LoadFails ==
    /\ pc = "start"
    /\ file.exists
    /\ ~file.wellformed
    /\ Raise(<<>>)
    /\ UNCHANGED <<inputs, df, description_dtype, insights, filtered_df, kpis, csv,
                   preview, charts, first_df>>

\* Lines 33-39
Overview ==
    /\ pc = "overview"
    /\ Render(<<"h_overview", "overview">>, "top_selling")
    /\ UNCHANGED <<inputs, df, description_dtype, insights, filtered_df, kpis, csv,
                   preview, charts, first_df>>

\* Lines 41-57
TopSelling ==
    /\ pc = "top_selling"
    /\ \E s \in SortValuesDesc(GroupBySum(df, "description", "quantity")) :
           top_selling_products' = HeadN(s, TopProducts)
    /\ Render(<<"h_insights", "top_selling">>, "top_profitable")
    /\ UNCHANGED <<inputs, df, description_dtype, top_profitable_products,
                   top_countries, num_loss_customers, filtered_df, kpis, csv,
                   preview, charts, first_df>>

\* Lines 59-72
TopProfitable ==
    /\ pc = "top_profitable"
    /\ \E s \in SortValuesDesc(GroupBySum(df, "description", "profit")) :
           top_profitable_products' = HeadN(s, TopProducts)
    /\ Render(<<"top_profitable">>, "top_countries")
    /\ UNCHANGED <<inputs, df, description_dtype, top_selling_products,
                   top_countries, num_loss_customers, filtered_df, kpis, csv,
                   preview, charts, first_df>>

\* Lines 74-83
TopCountries ==
    /\ pc = "top_countries"
    /\ \E s \in SortValuesDesc(GroupSizes(df, "country")) :
           top_countries' = HeadN(s, TopCountriesN)
    /\ Render(<<"top_countries">>, "loss_customers")
    /\ UNCHANGED <<inputs, df, description_dtype, top_selling_products,
                   top_profitable_products, num_loss_customers, filtered_df, kpis,
                   csv, preview, charts, first_df>>

\* Mutant of IsLoss: a sum of exactly 0 counts as a loss
IsLossOrZero(profit_sum) == profit_sum <= 0

\* (loss_customers < 0), line 87
IsLoss(profit_sum) == profit_sum < 0

\* Lines 85-88
LossCustomers ==
    /\ pc = "loss_customers"
    /\ LET loss_customers == GroupBySum(df, "customerid", "profit")
       IN  num_loss_customers' =
               Cardinality({k \in DOMAIN loss_customers : IsLoss(loss_customers[k])})
    /\ Render(<<"loss_info">>, "filter")
    /\ UNCHANGED <<inputs, df, description_dtype, top_selling_products,
                   top_profitable_products, top_countries, filtered_df, kpis, csv,
                   preview, charts, first_df>>

\* Lines 90-101: the widgets, then the two filter steps on a copy of df
FilterData ==
    /\ pc = "filter"
    /\ search_text # <<>> => ~StrContainsRaises(description_dtype, search_text)
    /\ filtered_df' = CountryStep(TextStep(df, search_text), selected_country)
    /\ Render(<<"h_filter", "search_input", "country_select">>, "kpis")
    /\ UNCHANGED <<inputs, df, description_dtype, insights, kpis, csv, preview,
                   charts, first_df>>

\* Lines 98-99, 148-149: str.contains raises
FilterFails ==
    /\ pc = "filter"
    /\ search_text # <<>>
    /\ StrContainsRaises(description_dtype, search_text)
    /\ Raise(<<"h_filter", "search_input", "country_select">>)
    /\ UNCHANGED <<inputs, df, description_dtype, insights, filtered_df, kpis, csv,
                   preview, charts, first_df>>

\* Lines 103-113
KeyMetrics ==
    /\ pc = "kpis"
    /\ total_sales' = SumSeq(Column(filtered_df, "sales"))
    /\ total_profit' = SumSeq(Column(filtered_df, "profit"))
    /\ date_min' = DateMin(filtered_df)
    /\ date_max' = DateMax(filtered_df)
    /\ Render(<<"h_kpis", "metrics">>, "download")
    /\ UNCHANGED <<inputs, df, description_dtype, insights, filtered_df, csv,
                   preview, charts, first_df>>

\* Lines 115-117
Download ==
    /\ pc = "download"
    /\ csv' = ToCsv(filtered_df)
    /\ Render(<<"download">>, "preview")
    /\ UNCHANGED <<inputs, df, description_dtype, insights, filtered_df, kpis,
                   preview, charts, first_df>>

\* Lines 119-121
Preview ==
    /\ pc = "preview"
    /\ preview' = HeadN(filtered_df, PreviewRows)
    /\ Render(<<"h_preview", "preview">>, "sales_over_time")
    /\ UNCHANGED <<inputs, df, description_dtype, insights, filtered_df, kpis, csv,
                   charts, first_df>>

\* Lines 123-126
SalesOverTime ==
    /\ pc = "sales_over_time"
    /\ sales_over_time' = SortByTime(GroupBySum(filtered_df, "invoicedate", "sales"))
    /\ Render(<<"h_sales_over_time", "sales_over_time">>, "monthly")
    /\ UNCHANGED <<inputs, df, description_dtype, insights, filtered_df, kpis, csv,
                   preview, monthly_sales, clv, order_dist, first_df>>

\* Lines 128-131
MonthlyTrend ==
    /\ pc = "monthly"
    /\ monthly_sales' = MonthlySales(filtered_df)
    /\ Render(<<"h_monthly", "monthly">>, "top_customers")
    /\ UNCHANGED <<inputs, df, description_dtype, insights, filtered_df, kpis, csv,
                   preview, sales_over_time, clv, order_dist, first_df>>

\* groupby(...).apply(f) returns a Series of the groups' results, but with no
\* group at all (an empty frame, or every key NaN) it returns an empty
\* DataFrame, and DataFrame.sort_values(ascending=False) raises TypeError:
\* its argument `by` is missing
ApplyGivesSeries(frame, col) == GroupKeys(frame, col) # {}

\* Lines 133-137
TopCustomers ==
    /\ pc = "top_customers"
    /\ ApplyGivesSeries(filtered_df, "customerid")
    /\ \E s \in SortValuesDesc(GroupBySum(filtered_df, "customerid", "sales")) :
           clv' = HeadN(s, TopCustomersN)
    /\ Render(<<"h_top_customers", "top_customers">>, "orders")
    /\ UNCHANGED <<inputs, df, description_dtype, insights, filtered_df, kpis, csv,
                   preview, sales_over_time, monthly_sales, order_dist, first_df>>

\* Lines 135-136, 148-149: sort_values raises on the empty DataFrame
TopCustomersFails ==
    /\ pc = "top_customers"
    /\ ~ApplyGivesSeries(filtered_df, "customerid")
    /\ Raise(<<"h_top_customers">>)
    /\ UNCHANGED <<inputs, df, description_dtype, insights, filtered_df, kpis, csv,
                   preview, charts, first_df>>

\* Lines 139-146
OrdersByCountry ==
    /\ pc = "orders"
    /\ order_dist' \in SortValuesDesc(GroupSizes(filtered_df, "country"))
    /\ Render(<<"h_orders", "orders_by_country", "caption">>, "footer")
    /\ UNCHANGED <<inputs, df, description_dtype, insights, filtered_df, kpis, csv,
                   preview, sales_over_time, monthly_sales, clv, first_df>>

\* Lines 153-175: the two expanders after the if/else; the run ends
Footer ==
    /\ pc = "footer"
    /\ Render(<<"use_cases", "about">>, "done")
    /\ UNCHANGED <<inputs, df, description_dtype, insights, filtered_df, kpis, csv,
                   preview, charts, first_df>>

\* The user changes a widget of lines 93-95: Streamlit runs the script again
\* from the top, in a fresh namespace, with the widgets' new values
Interact ==
    /\ pc = "done"
    /\ "search_input" \in Range(rendered)
    /\ \E t \in SearchTexts, c \in CountryOptions(df) :
           /\ <<t, c>> # <<search_text, selected_country>>
           /\ search_text' = t
           /\ selected_country' = c
    /\ pc' = "start"
    /\ df' = <<>>
    /\ description_dtype' = "object"
    /\ top_selling_products' = <<>>
    /\ top_profitable_products' = <<>>
    /\ top_countries' = <<>>
    /\ num_loss_customers' = 0
    /\ filtered_df' = <<>>
    /\ total_sales' = 0
    /\ total_profit' = 0
    /\ date_min' = NaN
    /\ date_max' = NaN
    /\ csv' = <<>>
    /\ preview' = <<>>
    /\ sales_over_time' = <<>>
    /\ monthly_sales' = <<>>
    /\ clv' = <<>>
    /\ order_dist' = <<>>
    /\ rendered' = <<>>
    /\ UNCHANGED <<file, first_df>>

Next ==
    \/ FileNotFound
    \/ Load
    \/ LoadFails
    \/ Overview
    \/ TopSelling
    \/ TopProfitable
    \/ TopCountries
    \/ LossCustomers
    \/ FilterData
    \/ FilterFails
    \/ KeyMetrics
    \/ Download
    \/ Preview
    \/ SalesOverTime
    \/ MonthlyTrend
    \/ TopCustomers
    \/ TopCustomersFails
    \/ OrdersByCountry
    \/ Footer
    \/ Interact

Spec == Init /\ [][Next]_vars

---------------------------------------------------------------------------
(* Vocabulary of the properties.  These definitions restate what a view    *)
(* should hold directly from the rows; they use none of the operations     *)
(* above except the pattern match.                                         *)

Shown(element) == element \in Range(rendered)

Idx(frame) == 1..Len(frame)

RECURSIVE SumOver(_, _)
SumOver(S, f) ==
    IF S = {} THEN 0
    ELSE LET i == CHOOSE j \in S : TRUE IN f[i] + SumOver(S \ {i}, f)

QuantityAt(frame) == [i \in Idx(frame) |-> frame[i].quantity[1]]
SalesAt(frame)    == [i \in Idx(frame) |-> frame[i].quantity[1] * frame[i].unitprice[1]]
ProfitAt(frame)   == [i \in Idx(frame) |-> frame[i].profit[1]]
OneAt(frame)      == [i \in Idx(frame) |-> 1]

\* The values of a column that are present
PresentKeys(frame, col) == {frame[i][col] : i \in Idx(frame)} \ {<<>>}

\* The metric f summed over the rows of each present key
Metric(frame, col, f) ==
    [k \in PresentKeys(frame, col) |-> SumOver({i \in Idx(frame) : frame[i][col] = k}, f)]

\* view is a "top n" of metric: at most n entries, each a group with its
\* metric, no group twice, in non-increasing order, no omitted group better
\* than a returned one
IsTopN(view, metric, n) ==
    /\ Len(view) = IF Cardinality(DOMAIN metric) < n THEN Cardinality(DOMAIN metric) ELSE n
    /\ \A i \in 1..Len(view) :
           /\ view[i].key \in DOMAIN metric
           /\ view[i].value = metric[view[i].key]
    /\ \A i, j \in 1..Len(view) : i < j =>
           /\ view[i].key # view[j].key
           /\ view[i].value >= view[j].value
    /\ \A k \in DOMAIN metric \ {view[i].key : i \in 1..Len(view)} :
           \A i \in 1..Len(view) : metric[k] <= view[i].value

\* The rows the script's filter keeps: the pattern of the search box is
\* found in the description (when the box is not empty), and the country is
\* the selected one (unless "All" is selected)
Kept(r, text, ctry) ==
    /\ text = <<>> \/ (r.description # <<>> /\ RegexSearch(r.description[1], text))
    /\ ctry = "All" \/ r.country = <<ctry>>

Matching(frame, text, ctry) == SelectSeq(frame, LAMBDA r : Kept(r, text, ctry))

\* The filter section ran to its end in this run
FilterDone ==
    /\ Shown("country_select")
    /\ pc \in {"footer", "done"} => Shown("h_kpis")

\* The views of lines 45-87 are those of the rows of frame
InsightsOver(frame) ==
    /\ Shown("top_selling") =>
           IsTopN(top_selling_products,
                  Metric(frame, "description", QuantityAt(frame)), TopProducts)
    /\ Shown("top_profitable") =>
           IsTopN(top_profitable_products,
                  Metric(frame, "description", ProfitAt(frame)), TopProducts)
    /\ Shown("top_countries") =>
           IsTopN(top_countries, Metric(frame, "country", OneAt(frame)), TopCountriesN)
    /\ Shown("loss_info") =>
           LET m == Metric(frame, "customerid", ProfitAt(frame))
           IN  num_loss_customers = Cardinality({k \in DOMAIN m : m[k] < 0})

\* The views of lines 105-141 are those of the rows of frame
FilteredViewsOver(frame) ==
    /\ Shown("metrics") =>
           /\ total_sales = SumOver(Idx(frame), SalesAt(frame))
           /\ total_profit = SumOver(Idx(frame), ProfitAt(frame))
           /\ \A i \in Idx(frame) :
                  /\ date_min = frame[i].invoicedate
                         \/ Before(date_min[1], frame[i].invoicedate[1])
                  /\ date_max = frame[i].invoicedate
                         \/ Before(frame[i].invoicedate[1], date_max[1])
           /\ frame = <<>> => date_min = <<>> /\ date_max = <<>>
    /\ Shown("sales_over_time") =>
           LET m == Metric(frame, "invoicedate", SalesAt(frame))
           IN  /\ {e.key : e \in Range(sales_over_time)} = DOMAIN m
               /\ \A e \in Range(sales_over_time) : e.value = m[e.key]
    /\ Shown("monthly") =>
           \A e \in Range(monthly_sales) :
               e.value = SumOver({i \in Idx(frame) : frame[i].invoicedate[1][1] = e.key},
                                 SalesAt(frame))
    /\ Shown("top_customers") =>
           IsTopN(clv, Metric(frame, "customerid", SalesAt(frame)), TopCustomersN)
    /\ Shown("orders_by_country") =>
           IsTopN(order_dist, Metric(frame, "country", OneAt(frame)), Len(frame))

---------------------------------------------------------------------------
(* C1 *)

\* C1, as stated: every aggregate on the page, the four "top insight" views
\* of lines 45-87 included, is the aggregate of the currently filtered rows.
C1_AllAggregatesOverFiltered ==
    FilterDone =>
        /\ InsightsOver(Matching(df, search_text, selected_country))
        /\ FilteredViewsOver(Matching(df, search_text, selected_country))

\* C1, amended: total sales, total profit, the date range, sales over time,
\* the monthly trend, the top customers and the orders by country are the
\* aggregates of the currently filtered rows; the top selling products, the
\* top profitable products, the top countries and the net-loss customer
\* count are the aggregates of all loaded rows, whatever the filter.
C1_AggregatesOverTheirFrame ==
    /\ InsightsOver(df)
    /\ FilterDone => FilteredViewsOver(Matching(df, search_text, selected_country))

\* A run that ended with a filter that removes rows, all views on the page
C1_Witness ==
    /\ pc = "done"
    /\ Shown("orders_by_country")
    /\ Len(filtered_df) < Len(df)
    /\ Len(top_selling_products) > 0

---------------------------------------------------------------------------
(* C2 *)

\* text occurs in d as a substring, letter case ignored
IsSubstringCI(text, d) ==
    \E k \in 0..(Len(d) - Len(text)) :
        \A j \in 1..Len(text) : Fold(text[j]) = Fold(d[k + j])

KeptBySubstring(r) ==
    /\ search_text = <<>>
           \/ (r.description # <<>> /\ IsSubstringCI(search_text, r.description[1]))
    /\ selected_country = "All" \/ r.country = <<selected_country>>

\* C2, as stated: once the filter section has run, it has not failed, and the
\* filtered set is the rows of df whose description contains the search text
\* as a case-insensitive substring (any row when the text is empty) and whose
\* country is the selected one (any when "All"), in the order of df; with an
\* empty text and "All" it is df.
C2_FilterIsSubstringMatch ==
    Shown("country_select") =>
        /\ pc \in {"footer", "done"} => Shown("h_kpis")
        /\ filtered_df = SelectSeq(df, KeptBySubstring)
        /\ (search_text = <<>> /\ selected_country = "All") => filtered_df = df

---------------------------------------------------------------------------
(* C3 *)

\* The first row of frame with key k in column col
FirstAt(frame, col, k) ==
    CHOOSE i \in Idx(frame) :
        frame[i][col] = k /\ \A j \in 1..(i - 1) : frame[j][col] # k

\* Entries of equal value are in the order of their groups' first rows
TiesInRowOrder(view, frame, col) ==
    \A i, j \in 1..Len(view) :
        (i < j /\ view[i].value = view[j].value) =>
            FirstAt(frame, col, view[i].key) < FirstAt(frame, col, view[j].key)

\* The four "Top N" views that are on the page are top-N lists of their metric
TopViews ==
    /\ Shown("top_selling") =>
           IsTopN(top_selling_products,
                  Metric(df, "description", QuantityAt(df)), TopProducts)
    /\ Shown("top_profitable") =>
           IsTopN(top_profitable_products,
                  Metric(df, "description", ProfitAt(df)), TopProducts)
    /\ Shown("top_countries") =>
           IsTopN(top_countries, Metric(df, "country", OneAt(df)), TopCountriesN)
    /\ Shown("top_customers") =>
           IsTopN(clv, Metric(filtered_df, "customerid", SalesAt(filtered_df)),
                  TopCustomersN)

\* The top customers section was entered and left
TopCustomersRan == Shown("h_top_customers") /\ pc \in {"orders", "footer", "done"}

\* C3, as stated: every "Top N" view is produced, has at most N entries in
\* non-increasing order of its metric, omits no group better than a returned
\* one, and lists groups of equal metric in the order of their first rows.
C3_TopNStableTies ==
    /\ TopViews
    /\ TopCustomersRan => Shown("top_customers")
    /\ Shown("top_selling") => TiesInRowOrder(top_selling_products, df, "description")
    /\ Shown("top_profitable") => TiesInRowOrder(top_profitable_products, df, "description")
    /\ Shown("top_countries") => TiesInRowOrder(top_countries, df, "country")
    /\ Shown("top_customers") => TiesInRowOrder(clv, filtered_df, "customerid")

\* C3, amended: every "Top N" view that is produced has at most N entries in
\* non-increasing order of its metric and omits no group better than a
\* returned one; the order of groups of equal metric is not determined.  The
\* top customers view is produced exactly when some filtered row has a
\* customer id; otherwise the section ends in the error message.
C3_TopN ==
    /\ TopViews
    /\ TopCustomersRan =>
           IF PresentKeys(filtered_df, "customerid") # {}
           THEN Shown("top_customers")
           ELSE ~Shown("top_customers") /\ Shown("error_failed") /\ clv = <<>>

\* Every view cuts its list, and the top customers hold two of equal spend
C3_Witness ==
    /\ Shown("top_customers")
    /\ Len(clv) = TopCustomersN
    /\ Cardinality(PresentKeys(filtered_df, "customerid")) > TopCustomersN
    /\ Len(top_selling_products) = TopProducts
    /\ Cardinality(PresentKeys(df, "description")) > TopProducts
    /\ Len(top_countries) = TopCountriesN
    /\ Cardinality(PresentKeys(df, "country")) > TopCountriesN
    /\ \E i, j \in 1..Len(clv) : i < j /\ clv[i].value = clv[j].value

---------------------------------------------------------------------------
(* C4 *)

\* When some row of frame has no key, and the view is not cut short of it,
\* the view has an entry for the absent key
HasNullGroup(view, frame, col, n) ==
    ((\E i \in Idx(frame) : frame[i][col] = <<>>) /\ Len(view) < n) =>
        \E e \in 1..Len(view) : view[e].key = <<>>

NoNullGroup(view) == \A e \in 1..Len(view) : view[e].key # <<>>

\* C4, as stated: in every grouped view the rows without a key form a group
\* of their own that the view includes.
C4_NullKeysFormOwnGroup ==
    /\ Shown("top_selling") =>
           HasNullGroup(top_selling_products, df, "description", TopProducts)
    /\ Shown("top_profitable") =>
           HasNullGroup(top_profitable_products, df, "description", TopProducts)
    /\ Shown("top_countries") =>
           HasNullGroup(top_countries, df, "country", TopCountriesN)
    /\ Shown("loss_info") =>
           num_loss_customers =
               Cardinality({k \in {df[i].customerid : i \in Idx(df)} :
                   SumOver({i \in Idx(df) : df[i].customerid = k}, ProfitAt(df)) < 0})
    /\ Shown("top_customers") =>
           HasNullGroup(clv, filtered_df, "customerid", TopCustomersN)
    /\ Shown("orders_by_country") =>
           HasNullGroup(order_dist, filtered_df, "country", Len(filtered_df) + 1)

\* C4, amended: in every grouped view (by description, by customer id, by
\* country) the rows without a key are left out: no view has a group for the
\* absent key, the net-loss count counts present customer ids only, and the
\* orders by country count the rows with a country only.
C4_NullKeysLeftOut ==
    /\ NoNullGroup(top_selling_products)
    /\ NoNullGroup(top_profitable_products)
    /\ NoNullGroup(top_countries)
    /\ NoNullGroup(clv)
    /\ NoNullGroup(order_dist)
    /\ Shown("loss_info") =>
           num_loss_customers =
               Cardinality({k \in PresentKeys(df, "customerid") :
                   SumOver({i \in Idx(df) : df[i].customerid = k}, ProfitAt(df)) < 0})
    /\ Shown("orders_by_country") =>
           SumOver(1..Len(order_dist), [e \in 1..Len(order_dist) |-> order_dist[e].value])
               = Cardinality({i \in Idx(filtered_df) : filtered_df[i].country # <<>>})

\* All views on the page, over rows that lack a description, a customer id
\* and a country
C4_Witness ==
    /\ Shown("orders_by_country")
    /\ \E i \in Idx(df) : df[i].description = <<>>
    /\ \E i \in Idx(filtered_df) : filtered_df[i].customerid = <<>>
    /\ \E i \in Idx(filtered_df) : filtered_df[i].country = <<>>

---------------------------------------------------------------------------
(* C5 *)

CustomerIds(frame) ==
    {frame[i].customerid[1] : i \in {j \in Idx(frame) : frame[j].customerid # <<>>}}

ProfitOf(frame, c) ==
    SumOver({i \in Idx(frame) : frame[i].customerid = <<c>>}, ProfitAt(frame))

\* C5: the net-loss customer count is the number of distinct customer ids
\* whose profit, summed over all rows of the customer, is below 0; a customer
\* whose profits sum to 0 or more is not counted.
C5_NetLossCount ==
    Shown("loss_info") =>
        num_loss_customers =
            Cardinality({c \in CustomerIds(df) : ProfitOf(df, c) < 0})

\* One customer's sale is cancelled by its return (sum 0), another has only
\* a return (sum below 0): one is counted
C5_Witness ==
    /\ Shown("loss_info")
    /\ \E c \in CustomerIds(df) : ProfitOf(df, c) = 0
    /\ \E c \in CustomerIds(df) : ProfitOf(df, c) < 0
    /\ num_loss_customers = 1

---------------------------------------------------------------------------
(* C6 *)

\* C6, as stated: a run whose filtered set is empty does not end in the
\* error message; total sales and total profit are 0, the date range is
\* undefined, the "Top N" lists of an empty set are empty, and the export,
\* the preview, sales over time, the monthly trend, the top customers and
\* the orders by country are all produced.
C6_EmptySetCompletes ==
    (pc = "done" /\ FilterDone /\ filtered_df = <<>>) =>
        /\ ~Shown("error_failed")
        /\ total_sales = 0 /\ total_profit = 0
        /\ date_min = <<>> /\ date_max = <<>>
        /\ clv = <<>>
        /\ df = <<>> => /\ top_selling_products = <<>>
                        /\ top_profitable_products = <<>>
                        /\ top_countries = <<>>
        /\ \A e \in {"download", "preview", "sales_over_time", "monthly",
                     "top_customers", "orders_by_country"} : Shown(e)

---------------------------------------------------------------------------
(* C7 *)

\* The elements the try block of lines 16-146 renders, in the order of the script
TryElements ==
    << "success", "h_overview", "overview", "h_insights", "top_selling",
       "top_profitable", "top_countries", "loss_info", "h_filter",
       "search_input", "country_select", "h_kpis", "metrics", "download",
       "h_preview", "preview", "h_sales_over_time", "sales_over_time",
       "h_monthly", "monthly", "h_top_customers", "top_customers", "h_orders",
       "orders_by_country", "caption" >>

\* The page without the two expanders that follow the if/else
PageBody == SelectSeq(rendered, LAMBDA e : e \notin {"use_cases", "about"})

\* How many elements of the try block are on the page
NumTryElements == Len(SelectSeq(rendered, LAMBDA e : e \in Range(TryElements)))

NumErrors == Len(SelectSeq(rendered, LAMBDA e : e = "error_failed"))

\* C7: the elements of the try block on the page are the first ones of the
\* script, in order; when the file exists and the run has left the try block
\* before its last element, the page holds these elements followed by exactly
\* one error message and by no further element of the block; the run then
\* goes on to the expanders after the block and ends there.
C7_FailureIsCaught ==
    /\ NumTryElements <= Len(PageBody)
    /\ SubSeq(PageBody, 1, NumTryElements) = SubSeq(TryElements, 1, NumTryElements)
    /\ NumErrors <= 1
    /\ NumErrors = 1 => pc \in {"footer", "done"}
    /\ (file.exists /\ pc \in {"footer", "done"} /\ NumTryElements < Len(TryElements)) =>
           PageBody = SubSeq(TryElements, 1, NumTryElements) \o <<"error_failed">>
    /\ pc = "done" =>
           rendered = PageBody \o <<"use_cases", "about">>

\* A run that failed in the top customers section, after the KPIs, and ended
C7_Witness ==
    /\ pc = "done"
    /\ Shown("metrics")
    /\ Shown("h_top_customers")
    /\ Shown("error_failed")
    /\ ~Shown("top_customers")

---------------------------------------------------------------------------
(* C8 *)

ColumnAt(name) == CHOOSE c \in 1..Len(Columns) : Columns[c] = name

\* C8: the download holds one header line with the eight loaded columns and
\* profit, then one line per row of the currently filtered set, in order,
\* with that row's cells, and no other line; its lines are the rows total
\* sales is computed from.
C8_DownloadIsFilteredSet ==
    Shown("download") =>
        LET F == Matching(df, search_text, selected_country)
        IN  /\ Len(csv) = Len(F) + 1
            /\ csv[1] = Columns
            /\ \A i \in Idx(F) : \A c \in 1..Len(Columns) :
                   csv[i + 1][c] = F[i][Columns[c]]
            /\ total_sales =
                   SumOver(2..Len(csv),
                           [n \in 2..Len(csv) |->
                               csv[n][ColumnAt("quantity")][1]
                                   * csv[n][ColumnAt("unitprice")][1]])

\* A download of some but not all loaded rows
C8_Witness ==
    /\ Shown("download")
    /\ Len(csv) > 1
    /\ Len(csv) - 1 < Len(df)
    /\ search_text # <<>>
    /\ selected_country # "All"

---------------------------------------------------------------------------
(* C9 *)

IsWorkedExample(frame) ==
    /\ Len(frame) = 3
    /\ <<frame[1].quantity, frame[1].unitprice, frame[1].country>> = << <<10>>, <<200>>, <<"UK">> >>
    /\ <<frame[2].quantity, frame[2].unitprice, frame[2].country>> = << <<-5>>, <<300>>, <<"UK">> >>
    /\ <<frame[3].quantity, frame[3].unitprice, frame[3].country>> = << <<4>>, <<150>>, <<"FR">> >>

\* C9: total sales is the sum of quantity x unit price over the rows of the
\* filtered set, returns subtracting; total profit is the sum of quantity x
\* unit price x 0.2 over the same rows (here in tenths of a cent: x 2); both
\* are 0 on an empty set; the worked example gives 11.00 and 2.20.
C9_Totals ==
    Shown("metrics") =>
        LET F == Matching(df, search_text, selected_country)
        IN  /\ total_sales = SumOver(Idx(F), SalesAt(F))
            /\ total_profit = SumOver(Idx(F), [i \in Idx(F) |-> 2 * SalesAt(F)[i]])
            /\ F = <<>> => total_sales = 0 /\ total_profit = 0
            /\ IsWorkedExample(F) => total_sales = 1100 /\ total_profit = 2200

\* The KPIs of the worked example
C9_Witness ==
    /\ Shown("metrics")
    /\ IsWorkedExample(filtered_df)
    /\ total_sales = 1100
    /\ total_profit = 2200

---------------------------------------------------------------------------
(* C10 *)

\* C10: in every run of the session the loaded frame is the one of the first
\* load, also after the filter has been computed, and the filtered view is
\* the rows of that frame the current search text and country keep, whatever
\* the widgets held before.
C10_FilteredViewIsFresh ==
    /\ Shown("success") => first_df = <<df>>
    /\ FilterDone =>
           /\ first_df = <<df>>
           /\ filtered_df = Matching(first_df[1], search_text, selected_country)

\* A run after the user has set both widgets, with some rows kept and some not
C10_Witness ==
    /\ FilterDone
    /\ pc = "done"
    /\ search_text # <<>>
    /\ selected_country # "All"
    /\ Len(filtered_df) > 0
    /\ Len(filtered_df) < Len(df)

=============================================================================
